---- MODULE Spec2Model ----
(***************************************************************************)
(* A model of 3d_fractal_triangular_pyramid.py: the recursive generator    *)
(* fractal_tetra_simple, the tetrahedron builder create_tetra and the      *)
(* alignment rotation get_rotation_matrix_to_align.                        *)
(*                                                                         *)
(* Numbers.  The program computes with floats whose values are built from  *)
(* rationals, sqrt(3) and sqrt(6).  The model computes with the exact      *)
(* reals they approximate: an element of the field Q(sqrt2, sqrt3) is the  *)
(* tuple <<a, b, c, d, n>> standing for                                    *)
(*            (a + b*sqrt2 + c*sqrt3 + d*sqrt6) / n,    n > 0,             *)
(* kept in lowest terms.  Rounding is not modelled.                        *)
(*                                                                         *)
(* Objects.  A mathutils Matrix is a mutable object: `heap` maps its       *)
(* address to its current value, frames and records hold addresses, and    *)
(* `@=` updates the heap in place.                                         *)
(***************************************************************************)
EXTENDS Integers, Sequences, FiniteSets, TLC

VARIABLES
    pc,              \* "start", "running" or "done": position of the script
    nozzle_width,    \* module-level parameter (line 8)
    scale_factor,    \* module-level parameter (line 9)
    stack,           \* the call stack of fractal_tetra_simple, top last
    all_meshes,      \* the accumulator list of (mesh, matrix, depth)
    meshes,          \* bpy.data.meshes: the mesh objects, in creation order
    heap,            \* the Matrix objects, by address
    calls            \* history: one entry per call of fractal_tetra_simple

vars == <<pc, nozzle_width, scale_factor, stack, all_meshes, meshes, heap, calls>>

-----------------------------------------------------------------------------
(* Exact arithmetic in Q(sqrt2, sqrt3) *)

Abs(x) == IF x < 0 THEN -x ELSE x

RECURSIVE GCD(_, _)
GCD(a, b) == IF b = 0 THEN a ELSE GCD(b, a % b)

\* a/g, ..., n/g for a common divisor g of the sign of n
KReduce(a, b, c, d, n, g) == <<a \div g, b \div g, c \div g, d \div g, n \div g>>

KSignedGCD(g, n) == IF n < 0 THEN -g ELSE g

KNorm(a, b, c, d, n) ==
    KReduce(a, b, c, d, n,
            KSignedGCD(GCD(GCD(GCD(Abs(a), Abs(b)), GCD(Abs(c), Abs(d))), Abs(n)), n))

Q(p, q) == KNorm(p, 0, 0, 0, q)

KZero == <<0, 0, 0, 0, 1>>
KOne == <<1, 0, 0, 0, 1>>

KNeg(x) == <<-x[1], -x[2], -x[3], -x[4], x[5]>>

\* x + y over the common denominator x[5] * fx = y[5] * fy
KAddOver(x, y, fx, fy) ==
    KNorm(x[1] * fx + y[1] * fy, x[2] * fx + y[2] * fy,
          x[3] * fx + y[3] * fy, x[4] * fx + y[4] * fy, x[5] * fx)

KAdd(x, y) ==
    IF x = KZero THEN y
    ELSE IF y = KZero THEN x
    ELSE KAddOver(x, y, y[5] \div GCD(x[5], y[5]), x[5] \div GCD(x[5], y[5]))

KSub(x, y) == KAdd(x, KNeg(y))

KMul(x, y) ==
    IF x = KZero \/ y = KZero THEN KZero
    ELSE IF x = KOne THEN y
    ELSE IF y = KOne THEN x
    ELSE KNorm(x[1] * y[1] + 2 * x[2] * y[2] + 3 * x[3] * y[3] + 6 * x[4] * y[4],
               x[1] * y[2] + x[2] * y[1] + 3 * (x[3] * y[4] + x[4] * y[3]),
               x[1] * y[3] + x[3] * y[1] + 2 * (x[2] * y[4] + x[4] * y[2]),
               x[1] * y[4] + x[4] * y[1] + x[2] * y[3] + x[3] * y[2],
               x[5] * y[5])

\* x / (p/q) for a rational divisor p/q # 0
KDivQ(x, p, q) == KNorm(x[1] * q, x[2] * q, x[3] * q, x[4] * q, x[5] * p)

\* sign of a + b*sqrt2
Sgn(a) == IF a > 0 THEN 1 ELSE IF a < 0 THEN -1 ELSE 0

\* sign of a + b*sqrt2
Sign2(a, b) ==
    IF b = 0 THEN Sgn(a)
    ELSE IF a = 0 \/ Sgn(a) = Sgn(b) THEN Sgn(b)
    ELSE IF a * a > 2 * b * b THEN Sgn(a)
    ELSE Sgn(b)

\* sign of an element: u + v*sqrt3 with u = a + b*sqrt2, v = c + d*sqrt2
\* sign of u + v*sqrt3 from the signs su of u, sv of v and sq of u^2 - 3*v^2
Sign3(su, sv, sq) ==
    IF sv = 0 THEN su
    ELSE IF su = 0 \/ su = sv THEN sv
    ELSE IF sq > 0 THEN su
    ELSE sv

\* sign of an element: u + v*sqrt3 with u = a + b*sqrt2, v = c + d*sqrt2,
\* u^2 - 3*v^2 = (a^2 + 2b^2 - 3c^2 - 6d^2) + (2ab - 6cd)*sqrt2
KSign(x) ==
    Sign3(Sign2(x[1], x[2]), Sign2(x[3], x[4]),
          Sign2(x[1] * x[1] + 2 * x[2] * x[2] - 3 * x[3] * x[3] - 6 * x[4] * x[4],
                2 * x[1] * x[2] - 6 * x[3] * x[4]))

KLess(x, y) == KSign(KSub(x, y)) < 0
KMin(x, y) == IF KLess(y, x) THEN y ELSE x
KMax(x, y) == IF KLess(x, y) THEN y ELSE x
KAbs(x) == IF KSign(x) < 0 THEN KNeg(x) ELSE x

\* floor of the integer square root (Newton's iteration)
RECURSIVE ISqrtIter(_, _)
ISqrtIter(m, x) ==
    IF (x + m \div x) \div 2 >= x THEN x ELSE ISqrtIter(m, (x + m \div x) \div 2)

ISqrt(m) == IF m < 2 THEN m ELSE ISqrtIter(m, m)

SquareOf(r, m) == r * r = m

IsSquare(m) == SquareOf(ISqrt(m), m)

\* the radicals of the field: sqrt(1), sqrt(2), sqrt(3), sqrt(6)
Radical(k) ==
    CASE k = 1 -> <<1, 0, 0, 0, 1>>
      [] k = 2 -> <<0, 1, 0, 0, 1>>
      [] k = 3 -> <<0, 0, 1, 0, 1>>
      [] k = 6 -> <<0, 0, 0, 1, 1>>

\* math.sqrt of a non-negative rational p/n whose root lies in the field:
\* p/n = (u/w)^2 * k  with k in {1, 2, 3, 6}, u^2 = RootNum, w^2 = RootDen
RootNum(x, k) == x[1] \div GCD(x[1], k)
RootDen(x, k) == x[5] * (k \div GCD(x[1], k))

KSqrtBy(x, k) == KMul(Q(ISqrt(RootNum(x, k)), ISqrt(RootDen(x, k))), Radical(k))

KSqrt(x) ==
    IF x = KZero THEN KZero
    ELSE KSqrtBy(x, CHOOSE k \in {1, 2, 3, 6} :
                        IsSquare(RootNum(x, k)) /\ IsSquare(RootDen(x, k)))

\* 1 / x for x = r * sqrt(k), a single non-zero coefficient
KInvMono(x) ==
    CASE x[1] # 0 -> Q(x[5], x[1])
      [] x[2] # 0 -> KNorm(0, x[5], 0, 0, 2 * x[2])
      [] x[3] # 0 -> KNorm(0, 0, x[5], 0, 3 * x[3])
      [] x[4] # 0 -> KNorm(0, 0, 0, x[5], 6 * x[4])

-----------------------------------------------------------------------------
(* mathutils.Vector: a triple of numbers *)

Vector(x, y, z) == <<x, y, z>>

VAdd(u, v) == <<KAdd(u[1], v[1]), KAdd(u[2], v[2]), KAdd(u[3], v[3])>>
VSub(u, v) == <<KSub(u[1], v[1]), KSub(u[2], v[2]), KSub(u[3], v[3])>>
VNeg(u) == <<KNeg(u[1]), KNeg(u[2]), KNeg(u[3])>>
VScale(u, k) == <<KMul(u[1], k), KMul(u[2], k), KMul(u[3], k)>>
VDivQ(u, p, q) == <<KDivQ(u[1], p, q), KDivQ(u[2], p, q), KDivQ(u[3], p, q)>>

Dot(u, v) == KAdd(KAdd(KMul(u[1], v[1]), KMul(u[2], v[2])), KMul(u[3], v[3]))

Cross(u, v) ==
    <<KSub(KMul(u[2], v[3]), KMul(u[3], v[2])),
      KSub(KMul(u[3], v[1]), KMul(u[1], v[3])),
      KSub(KMul(u[1], v[2]), KMul(u[2], v[1]))>>

Length(u) == KSqrt(Dot(u, u))

VZero == <<KZero, KZero, KZero>>

\* Vector.normalized(): the unit vector, or the zero vector for a zero vector
Normalized(u) == IF u = VZero THEN VZero ELSE VScale(u, KInvMono(Length(u)))

-----------------------------------------------------------------------------
(* mathutils.Matrix: a 4x4 value, a tuple of 4 rows of 4 numbers *)

Identity4 ==
    <<<<KOne, KZero, KZero, KZero>>,
      <<KZero, KOne, KZero, KZero>>,
      <<KZero, KZero, KOne, KZero>>,
      <<KZero, KZero, KZero, KOne>>>>

\* Matrix.Translation(v)
Translation(v) ==
    <<<<KOne, KZero, KZero, v[1]>>,
      <<KZero, KOne, KZero, v[2]>>,
      <<KZero, KZero, KOne, v[3]>>,
      <<KZero, KZero, KZero, KOne>>>>

\* An angle is carried as its cosine and sine.
Pi == [cos |-> KNeg(KOne), sin |-> KZero]

\* math.acos(x), x in [-1, 1]: the angle in [0, pi] whose cosine is x
Acos(x) == [cos |-> x, sin |-> KSqrt(KSub(KOne, KMul(x, x)))]

\* Rodrigues' formula for cosine c, sine s, t = 1 - c and unit axis k
RotationCS(c, s, t, k) ==
    <<<<KAdd(c, KMul(KMul(k[1], k[1]), t)),
        KSub(KMul(KMul(k[1], k[2]), t), KMul(k[3], s)),
        KAdd(KMul(KMul(k[1], k[3]), t), KMul(k[2], s)), KZero>>,
      <<KAdd(KMul(KMul(k[1], k[2]), t), KMul(k[3], s)),
        KAdd(c, KMul(KMul(k[2], k[2]), t)),
        KSub(KMul(KMul(k[2], k[3]), t), KMul(k[1], s)), KZero>>,
      <<KSub(KMul(KMul(k[1], k[3]), t), KMul(k[2], s)),
        KAdd(KMul(KMul(k[2], k[3]), t), KMul(k[1], s)),
        KAdd(c, KMul(KMul(k[3], k[3]), t)), KZero>>,
      <<KZero, KZero, KZero, KOne>>>>

\* Matrix.Rotation(angle, 4, axis): rotation by angle about the unit axis
Rotation(angle, axis) ==
    RotationCS(angle.cos, angle.sin, KSub(KOne, angle.cos), axis)

\* entry (i, j) of A @ B
MatMulEntry(A, B, i, j) ==
    KAdd(KAdd(KMul(A[i][1], B[1][j]), KMul(A[i][2], B[2][j])),
         KAdd(KMul(A[i][3], B[3][j]), KMul(A[i][4], B[4][j])))

MatMulRow(A, B, i) ==
    <<MatMulEntry(A, B, i, 1), MatMulEntry(A, B, i, 2),
      MatMulEntry(A, B, i, 3), MatMulEntry(A, B, i, 4)>>

\* A @ B
MatMul(A, B) ==
    <<MatMulRow(A, B, 1), MatMulRow(A, B, 2), MatMulRow(A, B, 3), MatMulRow(A, B, 4)>>

\* coordinate i of M @ v for a 3D point v (homogeneous coordinate 1)
MatPointEntry(M, v, i) ==
    KAdd(KAdd(KMul(M[i][1], v[1]), KMul(M[i][2], v[2])),
         KAdd(KMul(M[i][3], v[3]), M[i][4]))

MatPoint(M, v) ==
    <<MatPointEntry(M, v, 1), MatPointEntry(M, v, 2), MatPointEntry(M, v, 3)>>

-----------------------------------------------------------------------------
(* get_rotation_matrix_to_align, lines 44-64 *)

\* line 58: a world axis not nearly parallel to from_vec
Perp(from_vec) ==
    IF KLess(KAbs(from_vec[1]), Q(9, 10))
    THEN Vector(KOne, KZero, KZero)
    ELSE Vector(KZero, KOne, KZero)

\* lines 52-64, for the normalized vectors and axis = from_vec x to_vec
AlignAbout(from_vec, to_vec, axis) ==
    IF KLess(Length(axis), Q(1, 10000))
    THEN IF KSign(Dot(from_vec, to_vec)) > 0
         THEN Identity4
         ELSE Rotation(Pi, Normalized(Cross(from_vec, Perp(from_vec))))
    ELSE Rotation(Acos(KMax(KNeg(KOne), KMin(KOne, Dot(from_vec, to_vec)))),
                  Normalized(axis))

\* lines 46-50
AlignUnit(from_vec, to_vec) == AlignAbout(from_vec, to_vec, Cross(from_vec, to_vec))

get_rotation_matrix_to_align(from_vec, to_vec) ==
    AlignUnit(Normalized(from_vec), Normalized(to_vec))

-----------------------------------------------------------------------------
(* create_tetra, lines 12-42, and the vertices of lines 81-84 *)

Sqrt3 == Radical(3)
Sqrt6 == Radical(6)

\* the four points of a tetrahedron of size s
Points(s) ==
    <<Vector(KZero, KZero, KZero),
      Vector(s, KZero, KZero),
      Vector(KDivQ(s, 2, 1), KMul(KDivQ(Sqrt3, 2, 1), s), KZero),
      Vector(KDivQ(s, 2, 1), KMul(KDivQ(Sqrt3, 6, 1), s),
             KMul(KDivQ(Sqrt6, 3, 1), s))>>

\* the mesh: points and faces (vertex indices from 0, as in the source)
create_tetra(s) ==
    [points |-> Points(s),
     faces |-> <<<<0, 1, 2>>, <<0, 1, 3>>, <<1, 2, 3>>, <<2, 0, 3>>>>]

-----------------------------------------------------------------------------
(* The module-level parameters, lines 7-10, and the inputs explored *)

size == 30
recursion_depth == 4
LiteralNozzleWidth == Q(4, 10)
LiteralScaleFactor == Q(5, 10)

\* largest depth argument explored besides the literal recursion_depth
MaxDepth == 2

Sizes == {Q(size, 1), Q(1, 1), Q(-1, 1)}
NozzleWidths == {LiteralNozzleWidth, KZero, Q(-2, 1)}
ScaleFactors == {LiteralScaleFactor, Q(3, 2)}
Depths == (-1 .. MaxDepth) \cup {recursion_depth}

-----------------------------------------------------------------------------
(* Matrix objects *)

\* the slip of leaving out .copy(): the same object under another name
MatrixAlias(h, addr) == [heap |-> h, addr |-> addr]

\* Matrix.copy(): a new object with the same value
MatrixCopy(h, addr) == [heap |-> Append(h, h[addr]), addr |-> Len(h) + 1]

\* m @= X : the object at addr is multiplied in place
IMatMul(h, addr, X) == [h EXCEPT ![addr] = MatMul(h[addr], X)]

\* the default argument parent_matrix=Matrix.Identity(4) of line 66 is one
\* object, created when the function is defined
DefaultMatrix == 1

-----------------------------------------------------------------------------
(* The faces of lines 87-92, the centroid of line 102, the normal of
   lines 104-110 *)

\* the vertex triple of face i (i from 0) among the vertices v
FaceOf(v, i) ==
    CASE i = 0 -> <<v[1], v[2], v[3]>>
      [] i = 1 -> <<v[1], v[2], v[4]>>
      [] i = 2 -> <<v[2], v[3], v[4]>>
      [] i = 3 -> <<v[3], v[1], v[4]>>

FaceVerts(s, i) == FaceOf(Points(s), i)

\* line 102
Centroid(face_verts) == VDivQ(VAdd(VAdd(face_verts[1], face_verts[2]), face_verts[3]), 3, 1)

FaceCentroid(s, i) == Centroid(FaceVerts(s, i))

\* lines 106-110
ComputedNormal(face_verts) ==
    VNeg(Normalized(Cross(VSub(face_verts[2], face_verts[1]),
                          VSub(face_verts[3], face_verts[1]))))

\* the normal the loop body uses for face i
FaceNormal(s, i) ==
    IF i = 0 THEN Vector(KZero, KZero, KOne) ELSE ComputedNormal(FaceVerts(s, i))

\* base_centroid of line 126
BaseCentroid(next_size) ==
    Vector(KDivQ(next_size, 2, 1), KMul(KDivQ(Sqrt3, 6, 1), next_size), KZero)

\* the slip of translating by +base_centroid at line 127
ExtendPlus(h, addr, s, next_size, i) ==
    IMatMul(IMatMul(IMatMul(h, addr, Translation(FaceCentroid(s, i))),
                    addr,
                    get_rotation_matrix_to_align(Vector(KZero, KZero, KNeg(KOne)),
                                                 FaceNormal(s, i))),
            addr, Translation(BaseCentroid(next_size)))

\* lines 116-127: mat, the object at addr, is extended in place
Extend(h, addr, s, next_size, i) ==
    IMatMul(IMatMul(IMatMul(h, addr, Translation(FaceCentroid(s, i))),
                    addr,
                    get_rotation_matrix_to_align(Vector(KZero, KZero, KNeg(KOne)),
                                                 FaceNormal(s, i))),
            addr, Translation(VNeg(BaseCentroid(next_size))))

ExtendCopy(c, s, next_size, i) ==
    [heap |-> Extend(c.heap, c.addr, s, next_size, i), addr |-> c.addr]

\* lines 113-127: the child's matrix, built in place on a copy of the
\* parent's; the result is the heap and the address of mat
ChildMatrix(h, parent_matrix, s, next_size, i) ==
    ExtendCopy(MatrixCopy(h, parent_matrix), s, next_size, i)

-----------------------------------------------------------------------------
(* The state machine *)

Top == stack[Len(stack)]
Pop == SubSeq(stack, 1, Len(stack) - 1)

Frame(s, depth, parent_matrix, skip_base, id) ==
    [s |-> s, depth |-> depth, parent_matrix |-> parent_matrix,
     skip_base |-> skip_base, i |-> 0, st |-> "entry", id |-> id]

\* history entry of a call: its caller (0 for the top-level call), the face
\* it was spawned on (-1 for the top-level call), its arguments, the mesh
\* it created (0: none), the number of recursive calls it made, and whether
\* it has returned
CallEntry(parent, face, s, depth, parent_matrix, skip_base) ==
    [parent |-> parent, face |-> face, s |-> s, depth |-> depth,
     parent_matrix |-> parent_matrix, skip_base |-> skip_base,
     mesh |-> 0, ncalls |-> 0, returned |-> FALSE]

Init ==
    /\ pc = "start"
    /\ nozzle_width \in NozzleWidths
    /\ scale_factor \in ScaleFactors
    /\ stack = <<>>
    /\ all_meshes = <<>>
    /\ meshes = <<>>
    /\ heap = <<Identity4>>
    /\ calls = <<>>

\* the literal size is explored with the literal scale factor only: the
\* numbers of larger solids leave the integers of the model checker
Explored(s) == s = Q(size, 1) => scale_factor = LiteralScaleFactor

\* line 143 (with its arguments drawn from the explored inputs): the
\* top-level call; parent_matrix is the default object, all_meshes is None
\* and becomes the empty list at lines 68-69
TopLevelCall ==
    /\ pc = "start"
    /\ \E s \in Sizes, depth \in Depths, skip_base \in BOOLEAN :
          /\ Explored(s)
          /\ stack' = <<Frame(s, depth, DefaultMatrix, skip_base, 1)>>
          /\ calls' = <<CallEntry(0, -1, s, depth, DefaultMatrix, skip_base)>>
    /\ pc' = "running"
    /\ UNCHANGED <<nozzle_width, scale_factor, all_meshes, meshes, heap>>

\* a call is at its entry, lines 68-71
AtEntry == pc = "running" /\ stack # <<>> /\ Top.st = "entry"

\* a call is at the head of its loop, line 94
InLoop == pc = "running" /\ stack # <<>> /\ Top.st = "loop"

\* the slip of dropping the size floor from the test of line 71
ContinuesNoFloor(s, depth) == depth > 0

\* the slip of testing depth >= 0 at line 71
ContinuesAtZero(s, depth) == ~KLess(s, nozzle_width) /\ depth >= 0

\* the test of line 71
Continues(s, depth) == ~KLess(s, nozzle_width) /\ depth > 0

\* the slip of inserting the tuple at the front of the list at line 76
InsertRecordFirst(c) ==
    /\ heap' = c.heap
    /\ all_meshes' = <<[mesh |-> Len(meshes) + 1, matrix |-> c.addr,
                        depth |-> Top.depth]>> \o all_meshes

\* line 76: the tuple (mesh, c, depth) is appended, mesh being the object
\* just created and c the copy of parent_matrix
AppendRecord(c) ==
    /\ heap' = c.heap
    /\ all_meshes' = Append(all_meshes,
           [mesh |-> Len(meshes) + 1, matrix |-> c.addr, depth |-> Top.depth])

\* lines 71-78: the test holds; the call appends its record
Emit ==
    /\ AtEntry
    /\ Continues(Top.s, Top.depth)
    /\ meshes' = Append(meshes, create_tetra(Top.s))
    /\ AppendRecord(MatrixCopy(heap, Top.parent_matrix))
    /\ stack' = [stack EXCEPT ![Len(stack)].st = "loop"]
    /\ calls' = [calls EXCEPT ![Top.id].mesh = Len(meshes) + 1]
    /\ UNCHANGED <<pc, nozzle_width, scale_factor>>

\* lines 71 and 131: the test fails; the call returns at once
Terminate ==
    /\ AtEntry
    /\ ~Continues(Top.s, Top.depth)
    /\ stack' = Pop
    /\ calls' = [calls EXCEPT ![Top.id].returned = TRUE]
    /\ UNCHANGED <<pc, nozzle_width, scale_factor, all_meshes, meshes, heap>>

\* the slip of never skipping a face at line 96
SkipsNoFace(skip_base, i) == FALSE

\* the test of line 96
SkipsFace(skip_base, i) == skip_base /\ i = 0

\* lines 94-97: the base face is skipped
SkipBase ==
    /\ InLoop
    /\ Top.i < 4
    /\ SkipsFace(Top.skip_base, Top.i)
    /\ stack' = [stack EXCEPT ![Len(stack)].i = Top.i + 1]
    /\ UNCHANGED <<pc, nozzle_width, scale_factor, all_meshes, meshes, heap, calls>>

\* the slip of passing the size on unscaled at line 78
NextSizeUnscaled(s) == s

\* line 78
NextSize(s) == KMul(s, scale_factor)

\* the slip of passing skip_base=False at line 129
CallNoSkip(next_size, m) ==
    /\ heap' = m.heap
    /\ stack' = Append([stack EXCEPT ![Len(stack)].i = Top.i + 1],
                       Frame(next_size, Top.depth - 1, m.addr, FALSE, Len(calls) + 1))
    /\ calls' = Append([calls EXCEPT ![Top.id].ncalls = @ + 1],
                       CallEntry(Top.id, Top.i, next_size, Top.depth - 1, m.addr, FALSE))

\* line 129: the call with the matrix m built for it
Call(next_size, m) ==
    /\ heap' = m.heap
    /\ stack' = Append([stack EXCEPT ![Len(stack)].i = Top.i + 1],
                       Frame(next_size, Top.depth - 1, m.addr, TRUE, Len(calls) + 1))
    /\ calls' = Append([calls EXCEPT ![Top.id].ncalls = @ + 1],
                       CallEntry(Top.id, Top.i, next_size, Top.depth - 1, m.addr, TRUE))

\* lines 101-129 for next_size of line 78
Recurse(next_size) ==
    Call(next_size, ChildMatrix(heap, Top.parent_matrix, Top.s, next_size, Top.i))

\* lines 99-129: one iteration of the loop, up to the recursive call
SpawnChild ==
    /\ InLoop
    /\ Top.i < 4
    /\ ~SkipsFace(Top.skip_base, Top.i)
    /\ Recurse(NextSize(Top.s))
    /\ UNCHANGED <<pc, nozzle_width, scale_factor, all_meshes, meshes>>

\* line 131: the loop is over; the call returns
Return ==
    /\ InLoop
    /\ Top.i = 4
    /\ stack' = Pop
    /\ calls' = [calls EXCEPT ![Top.id].returned = TRUE]
    /\ UNCHANGED <<pc, nozzle_width, scale_factor, all_meshes, meshes, heap>>

\* lines 143-165: the top-level call has returned its list
Finish ==
    /\ pc = "running" /\ stack = <<>>
    /\ pc' = "done"
    /\ UNCHANGED <<nozzle_width, scale_factor, stack, all_meshes, meshes, heap, calls>>

Next ==
    \/ TopLevelCall
    \/ Emit
    \/ Terminate
    \/ SkipBase
    \/ SpawnChild
    \/ Return
    \/ Finish

Spec == Init /\ [][Next]_vars

-----------------------------------------------------------------------------
(* Vocabulary of the properties *)

CallIds == 1 .. Len(calls)
Records == 1 .. Len(all_meshes)

Started == pc # "start"

\* the arguments of the top-level call
Root == calls[1]

ValidConfig ==
    /\ Started
    /\ KSign(Root.s) > 0
    /\ KSign(nozzle_width) >= 0
    /\ KSign(scale_factor) > 0 /\ KLess(scale_factor, KOne)
    /\ Root.depth >= 0

InvalidConfig ==
    /\ Started
    /\ \/ KSign(scale_factor) <= 0 \/ ~KLess(scale_factor, KOne)
       \/ KSign(Root.s) < 0
       \/ KSign(nozzle_width) < 0
       \/ Root.depth < 0

LiteralRun ==
    /\ Started
    /\ Root.s = Q(size, 1) /\ Root.depth = recursion_depth /\ Root.skip_base
    /\ nozzle_width = LiteralNozzleWidth /\ scale_factor = LiteralScaleFactor

\* the call has been made and its test of line 71 is still to come
Pending(k) == stack # <<>> /\ Top.id = k /\ Top.st = "entry"

\* the termination condition as the specification words it
Stops(c) == KLess(c.s, nozzle_width) \/ c.depth <= 0

\* the records that hold the mesh call k created
RecordsOf(k) == {r \in Records : all_meshes[r].mesh = calls[k].mesh}
RecordOf(k) == CHOOSE r \in Records : all_meshes[r].mesh = calls[k].mesh

\* the call that created the mesh of record r
Owner(r) == CHOOSE k \in CallIds : calls[k].mesh = all_meshes[r].mesh

Emitting == {k \in CallIds : calls[k].mesh # 0}
Children == {k \in CallIds : calls[k].parent # 0}
EmittingChildren == {k \in Children : calls[k].mesh # 0}

-----------------------------------------------------------------------------
\* C1: a call whose size is below nozzle_width or whose depth is <= 0 appends
\* no record and makes no recursive call; any other call appends exactly one
\* record, (tetrahedron of size s, the value of parent_matrix, depth), before
\* the records of its children (hence of its descendants), and makes at most
\* 4 recursive calls.
C1_EachCallEmitsOnceOrNothing ==
    /\ \A k \in CallIds :
          IF Stops(calls[k])
          THEN calls[k].mesh = 0 /\ calls[k].ncalls = 0 /\ RecordsOf(k) = {}
          ELSE \/ Pending(k)
               \/ /\ calls[k].mesh # 0
                  /\ Cardinality(RecordsOf(k)) = 1
                  /\ meshes[calls[k].mesh] = create_tetra(calls[k].s)
                  /\ heap[all_meshes[RecordOf(k)].matrix] = heap[calls[k].parent_matrix]
                  /\ all_meshes[RecordOf(k)].depth = calls[k].depth
                  /\ calls[k].ncalls <= 4
    /\ \A j \in EmittingChildren :
          /\ calls[calls[j].parent].mesh # 0
          /\ RecordOf(calls[j].parent) < RecordOf(j)
    /\ Len(all_meshes) = Cardinality(Emitting)

\* a run where calls were cut off by size with depth left, below a call
\* that emitted and made 4 recursive calls
C1_Witness ==
    /\ pc = "done"
    /\ \E k \in CallIds : calls[k].mesh # 0 /\ calls[k].ncalls = 4
    /\ \E j \in CallIds :
          KLess(calls[j].s, nozzle_width) /\ calls[j].depth > 0 /\ calls[j].returned

-----------------------------------------------------------------------------
\* the frames above the first: made with depth - 1 and size * scale_factor,
\* the size not larger than the caller's, below a caller that did not stop
StackShape ==
    \A f \in 2 .. Len(stack) :
        /\ stack[f].depth = stack[f - 1].depth - 1
        /\ stack[f].s = KMul(stack[f - 1].s, scale_factor)
        /\ ~KLess(stack[f - 1].s, stack[f].s)
        /\ stack[f - 1].depth > 0
        /\ ~KLess(stack[f - 1].s, nozzle_width)

\* some action of Next is enabled: the script is at line 143, or a call is
\* at its entry (its test holds or fails), in its loop, or has returned to
\* the script
CanStep ==
    \/ pc = "start"
    \/ pc = "running" /\ (stack = <<>> \/ AtEntry \/ (InLoop /\ Top.i <= 4))

\* the steps a frame may still take by itself, weighted by what the calls
\* it may still make can cost: a call of depth d costs less than 7^d
FrameWeight(f) ==
    (1 + (4 - f.i) + (IF f.st = "entry" THEN 1 ELSE 0))
        * 7 ^ (IF f.depth > 0 THEN f.depth ELSE 0)

RECURSIVE StackWeight(_)
StackWeight(n) == IF n = 0 THEN 0 ELSE FrameWeight(stack[n]) + StackWeight(n - 1)

\* a bound on the number of steps left
Measure == StackWeight(Len(stack)) + (IF pc = "running" THEN 1 ELSE 0)

\* C2: for a valid configuration (size > 0, nozzle_width >= 0,
\* 0 < scale_factor < 1, depth >= 0) the top-level call eventually returns:
\* until it has, a step is possible and every step lowers a bound on the
\* steps left; every recursive call is made with depth - 1 and
\* size * scale_factor, so depth falls by 1 per call and size never grows,
\* and no call is made below a call whose depth is <= 0 or whose size is
\* below nozzle_width.
C2_ValidRunTerminates ==
    /\ [](ValidConfig => StackShape /\ (pc = "done" \/ CanStep))
    /\ [][ValidConfig => Measure' < Measure /\ Measure' >= 0]_vars

\* a valid run that has returned, with a call cut off by size
C2_Witness ==
    /\ ValidConfig /\ pc = "done"
    /\ \E j \in Children :
          KLess(calls[j].s, nozzle_width) /\ calls[j].depth > 0 /\ calls[j].returned

-----------------------------------------------------------------------------
RecordsAtDepth(d) == {r \in Records : all_meshes[r].depth = d}

\* C3: the run with size = 30, recursion_depth = 4, scale_factor = 0.5,
\* nozzle_width = 0.4 and skip_base = True at the root terminates (it is
\* never stuck and every step lowers the bound on the steps left); it emits
\* 1 record at the root level and at most 3 per parent at each later level,
\* so at least 1 and at most 1 + 3 + 9 + 27 = 40 records.
C3_LiteralRunCount ==
    /\ [](LiteralRun =>
            /\ Len(all_meshes) <= 1 + 3 + 9 + 27
            /\ \A d \in 1 .. recursion_depth :
                  Cardinality(RecordsAtDepth(d)) <= 3 ^ (recursion_depth - d)
            /\ \A k \in CallIds : calls[k].mesh # 0 => calls[k].ncalls <= 3
            /\ pc = "done" =>
                  Len(all_meshes) >= 1 /\ Cardinality(RecordsAtDepth(recursion_depth)) = 1
            /\ pc # "done" => CanStep)
    /\ [][LiteralRun => Measure' < Measure]_vars

\* the literal run has ended with all 40 records
C3_Witness == LiteralRun /\ pc = "done" /\ Len(all_meshes) = 1 + 3 + 9 + 27

-----------------------------------------------------------------------------
\* C4: a call with skip_base = True that is not terminated emits its record
\* and spawns no child on face 0, so it has at most 3 children; every
\* recursive call is made with skip_base = True, so only a top-level call
\* with skip_base = False spawns a child on its base face (4 children).
C4_SkipBase ==
    /\ \A k \in CallIds :
          /\ (calls[k].skip_base /\ ~Stops(calls[k]) /\ ~Pending(k)) =>
                 calls[k].mesh # 0 /\ RecordsOf(k) # {} /\ calls[k].ncalls <= 3
          /\ calls[k].ncalls = 4 => calls[k].parent = 0 /\ ~calls[k].skip_base
    /\ \A j \in Children :
          /\ calls[j].skip_base
          /\ calls[j].face = 0 =>
                 calls[calls[j].parent].parent = 0 /\ ~calls[calls[j].parent].skip_base

\* a root with skip_base = False has spawned its 4 children, and a child of
\* it, called with skip_base = True, has emitted and spawned its 3
C4_Witness ==
    /\ pc = "done"
    /\ ~Root.skip_base /\ Root.ncalls = 4
    /\ \E j \in Children : calls[j].face = 0 /\ calls[j].mesh # 0 /\ calls[j].ncalls = 3

-----------------------------------------------------------------------------
\* C5: with recursion depth D at the top-level call every record has a depth
\* in 1..D, the first record is the root's and has depth D, and the record
\* of a child has depth one less than the record of its parent.
C5_RecordDepths ==
    /\ \A r \in Records : all_meshes[r].depth \in 1 .. Root.depth
    /\ all_meshes # <<>> =>
          all_meshes[1].depth = Root.depth /\ all_meshes[1].mesh = Root.mesh
    /\ \A j \in EmittingChildren :
          all_meshes[RecordOf(j)].depth = all_meshes[RecordOf(calls[j].parent)].depth - 1

\* a finished run of depth >= 3 whose records reach depth 1
C5_Witness ==
    /\ pc = "done" /\ Root.depth >= 3
    /\ \E r \in Records : all_meshes[r].depth = 1
    /\ \E r \in Records : all_meshes[r].depth = Root.depth - 1

-----------------------------------------------------------------------------
\* C6: an invalid configuration (scale_factor outside (0,1), negative size,
\* negative nozzle_width or negative depth) fails fast: the run ends in an
\* error with no record emitted, never with a partial or full sequence.
C6_InvalidConfigFailsFast ==
    InvalidConfig => all_meshes = <<>> /\ pc # "done"

-----------------------------------------------------------------------------
\* the centroid of the solid: the mean of its 4 vertices
SolidCentroid(s) ==
    VDivQ(VAdd(VAdd(Points(s)[1], Points(s)[2]), VAdd(Points(s)[3], Points(s)[4])), 4, 1)

\* (faceCentroid - solidCentroid) . normal, for face i of the solid of size s
Outwardness(s, i) ==
    Dot(VSub(FaceCentroid(s, i), SolidCentroid(s)), FaceNormal(s, i))

\* C7: for each of the 4 faces of a tetrahedron of size s > 0 the normal the
\* loop uses points away from the centroid of the solid:
\* (faceCentroid - solidCentroid) . normal > 0.
C7_NormalsPointOutward ==
    (stack # <<>> /\ Top.st = "loop" /\ KSign(Top.s) > 0) =>
        \A i \in 0 .. 3 : KSign(Outwardness(Top.s, i)) > 0

-----------------------------------------------------------------------------
\* the base centroid of a tetrahedron of the given size, as the
\* specification gives it: (size/2, (sqrt3/6)*size, 0)
AnalyticBaseCentroid(childSize) ==
    Vector(KDivQ(childSize, 2, 1), KDivQ(KMul(Sqrt3, childSize), 6, 1), KZero)

\* C8: the transform of every record of a child maps the child's base
\* centroid to the image, under the transform of the parent's record, of
\* the centroid of the parent's face the child is attached to.
C8_BaseCentroidOnFaceCentroid ==
    \A j \in EmittingChildren :
        MatPoint(heap[all_meshes[RecordOf(j)].matrix], AnalyticBaseCentroid(calls[j].s))
          = MatPoint(heap[all_meshes[RecordOf(calls[j].parent)].matrix],
                     FaceCentroid(calls[calls[j].parent].s, calls[j].face))

\* records of children on a side face and on the base face, two levels deep
C8_Witness ==
    /\ \E j \in EmittingChildren : calls[j].face = 0
    /\ \E j \in EmittingChildren :
          calls[j].face = 2 /\ calls[calls[j].parent].parent # 0

-----------------------------------------------------------------------------
\* the faces from the root down to call k
RECURSIVE Path(_)
Path(k) == IF calls[k].parent = 0 THEN <<>>
           ELSE Append(Path(calls[k].parent), calls[k].face)

\* p before q in depth-first pre-order: p is a proper prefix of q, or p has
\* the earlier face where they first differ
RECURSIVE PreOrderLess(_, _)
PreOrderLess(p, q) ==
    IF q = <<>> THEN FALSE
    ELSE IF p = <<>> THEN TRUE
    ELSE IF Head(p) # Head(q) THEN Head(p) < Head(q)
    ELSE PreOrderLess(Tail(p), Tail(q))

\* C9: records are in depth-first pre-order with the children in face order
\* base, front, right, left (base left out under skip_base): a parent's
\* record precedes the records of its subtree, the records of the subtree on
\* an earlier face precede those of the subtree on a later face, and a call
\* returns only after all of its children have returned.
C9_DepthFirstPreOrder ==
    /\ \A r1 \in Records : \A r2 \in Records :
          r1 < r2 => PreOrderLess(Path(Owner(r1)), Path(Owner(r2)))
    /\ \A j \in Children :
          /\ calls[j].face \in (IF calls[calls[j].parent].skip_base THEN 1 ELSE 0) .. 3
          /\ calls[calls[j].parent].returned => calls[j].returned
          /\ \A k \in Children :
                (k < j /\ calls[k].parent = calls[j].parent) =>
                    calls[k].face < calls[j].face /\ calls[k].returned

\* a finished run with records on every face of the root and below them
C9_Witness ==
    /\ pc = "done"
    /\ \A i \in 0 .. 3 : \E j \in EmittingChildren :
          /\ calls[j].parent = 1 /\ calls[j].face = i
          /\ \E k \in EmittingChildren : calls[k].parent = j

-----------------------------------------------------------------------------
\* the Matrix objects that frames and records refer to
Referenced ==
    {stack[f].parent_matrix : f \in 1 .. Len(stack)}
        \cup {all_meshes[r].matrix : r \in Records}

\* C10: the accumulator is append-only (its contents before a step are a
\* prefix of its contents after it) and no transform is mutated: a step
\* leaves unchanged the value of the matrix of every frame and of every
\* record, a record's matrix being an object of its own.
C10_AppendOnlyNoMutation ==
    /\ [][/\ Len(all_meshes') >= Len(all_meshes)
          /\ SubSeq(all_meshes', 1, Len(all_meshes)) = all_meshes
          /\ \A a \in Referenced : heap'[a] = heap[a]
          /\ \A f \in 1 .. Len(stack) :
                f <= Len(stack') => stack'[f].parent_matrix = stack[f].parent_matrix]_vars
    /\ [](\A r \in Records :
            /\ \A f \in 1 .. Len(stack) : stack[f].parent_matrix # all_meshes[r].matrix
            /\ \A q \in Records : q # r => all_meshes[q].matrix # all_meshes[r].matrix)

\* a child's transform has been built from its caller's, with records out
C10_Witness ==
    /\ Len(stack) >= 2 /\ Len(all_meshes) >= 2
    /\ heap[Top.parent_matrix] # heap[stack[Len(stack) - 1].parent_matrix]

====
